---- MODULE Spec2Model ----
(***************************************************************************)
(* Property Records Monitor: the deduplication store (src/src/database.py) *)
(* the scraper contract (src/src/scrapers/base.py), notification dispatch  *)
(* (src/src/notifiers/__init__.py) and the run orchestrator (src/main.py). *)
(*                                                                         *)
(* Six specifications:                                                     *)
(*   Spec      one monitor process after another (main, run_scraper),      *)
(*             every add_record awaited to completion before the next;     *)
(*   SpecFetch one call of fetch_all, over what its sub-fetches can do;    *)
(*   SpecStore any sequence of add_record, mark_notified and get_stats;    *)
(*   SpecNotify one call of a notifier's notify;                           *)
(*   SpecDispatch main from a batch of new records to its report;          *)
(*   SpecConc  two run_scraper loops sharing the properties table, their   *)
(*             add_record calls interleaved at add_record's await points.  *)
(***************************************************************************)
EXTENDS Integers, Sequences, FiniteSets, TLC

\* ------------------------------------------------------------------ bounds
MaxFetch == 2   \* listings one sub-fetch returns, at most
MaxClock == 3   \* datetime.utcnow() is read MaxClock times, at 1..MaxClock
MaxQueue == 2   \* SpecConc: listings in one run_scraper loop, at most
MaxMarks == 2   \* SpecStore: mark_notified is called MaxMarks times, at most
MaxBatch == 11  \* SpecNotify: records in the batch notify is called with, at most

\* ------------------------------------------------------------ value domains
\* Python None / SQL NULL in a TEXT column, and in an INTEGER column.
NoDate  == "None"
NoPrice == -1

RECURSIVE SeqsUpTo(_, _)
\* Every list over S of length 0..n.
SeqsUpTo(S, n) ==
    IF n = 0 THEN {<<>>}
    ELSE LET shorter == SeqsUpTo(S, n - 1)
         IN  shorter \cup {Append(s, x) : s \in {t \in shorter : Len(t) = n - 1}, x \in S}

\* PropertyResult: what a scraper yields for one listing.
Listing(parcel, rtype, price, date) ==
    [parcel_id |-> parcel, address |-> "1 Ocean Dr", city |-> "Miami Beach",
     state |-> "FL", zip_code |-> "33139", property_type |-> "residential",
     record_type |-> rtype, sale_price |-> price, sale_date |-> date,
     seller |-> "None", buyer |-> "None", url |-> "https://x",
     raw_data |-> "None"]

\* What fetch_recent_sales can find: one event, seen at two prices.
SalesPool ==
    { Listing("X1", "sale", 300000, "2024-03-01"),
      Listing("X1", "sale", 310000, "2024-03-01") }

\* What fetch_foreclosures can find: a filing with no date, one with a date.
ForeclosurePool ==
    { Listing("X1", "foreclosure", NoPrice, NoDate),
      Listing("X1", "foreclosure", 150000, "2024-03-01") }

\* A sub-fetch either raises or returns a list of at most n listings.
SubFetchOutcomes(pool, n) ==
    { [raised |-> TRUE, items |-> <<>>] }
        \cup { [raised |-> FALSE, items |-> s] : s \in SeqsUpTo(pool, n) }

\* SpecFetch: what fetch_recent_sales can find: besides SalesPool a cheap
\* listing, a dear one, one priced 0 (parse_price("$0")), one with no price
\* and no date, one with no zip code and one from another zip code.
FetchSalesPool ==
    SalesPool \cup { Listing("X2", "sale", 150000, "2024-03-01"),
                     Listing("X2", "sale", 600000, "2024-03-01"),
                     Listing("X2", "sale", 0, "2024-03-01"),
                     Listing("X2", "sale", NoPrice, NoDate),
                     [Listing("X3", "sale", 300000, "2024-03-01") EXCEPT !.zip_code = ""],
                     [Listing("X3", "sale", 300000, "2024-03-01")
                        EXCEPT !.zip_code = "90210"] }

\* What fetch_recent_sales and fetch_foreclosures can do.
SalesOutcomes == SubFetchOutcomes(SalesPool, MaxFetch)

ForeclosureOutcomes == SubFetchOutcomes(ForeclosurePool, 1)

\* ----------------------------------------------------------- configuration
\* The environments a process is started in.  config.py: MIN_PRICE, MAX_PRICE
\* (0 = unset), ZIP_CODES, PROPERTY_TYPES; `configured` is the set of
\* notifiers whose is_configured() is true (their URLs and credentials are set).
Configs ==
    { [MIN_PRICE |-> 0, MAX_PRICE |-> 0, ZIP_CODES |-> {}, PROPERTY_TYPES |-> {"all"},
       configured |-> {"discord", "webhook"}],
      [MIN_PRICE |-> 200000, MAX_PRICE |-> 500000, ZIP_CODES |-> {"33139"},
       PROPERTY_TYPES |-> {"sale"}, configured |-> {}] }

\* SpecFetch: the environments of fetch_all: Configs, and each filter rule on
\* its own (a price floor, a ceiling, a range; a zip whitelist; a type
\* whitelist naming a record type, a property type, neither, or nothing).
FetchConfigs ==
    Configs \cup
    { [MIN_PRICE |-> lo, MAX_PRICE |-> hi, ZIP_CODES |-> {}, PROPERTY_TYPES |-> {"all"},
       configured |-> {}] : lo \in {0, 200000}, hi \in {0, 500000} } \cup
    { [MIN_PRICE |-> 0, MAX_PRICE |-> 0, ZIP_CODES |-> {"33139"},
       PROPERTY_TYPES |-> {"all"}, configured |-> {}] } \cup
    { [MIN_PRICE |-> 0, MAX_PRICE |-> 0, ZIP_CODES |-> {}, PROPERTY_TYPES |-> ty,
       configured |-> {}] : ty \in {{"sale"}, {"residential"}, {"land"}, {}} }

\* A registry whose every entry tags its records with the entry's own name.
SCRAPERSTaggedByEntry ==
    [ n \in {"san_diego", "miami_dade", "zillow_san_diego", "zillow_miami",
             "zillow_la", "redfin_san_diego", "redfin_miami", "realtor_san_diego"} |-> n ]

\* scrapers/__init__.py: registry name -> the `name` attribute of its class.
SCRAPERS ==
    [ n \in {"san_diego", "miami_dade", "zillow_san_diego", "zillow_miami",
             "zillow_la", "redfin_san_diego", "redfin_miami", "realtor_san_diego"} |->
        CASE n = "san_diego"         -> "san_diego"
          [] n = "miami_dade"        -> "miami_dade"
          [] n = "zillow_san_diego"  -> "zillow"
          [] n = "zillow_miami"      -> "zillow"
          [] n = "zillow_la"         -> "zillow"
          [] n = "redfin_san_diego"  -> "redfin"
          [] n = "redfin_miami"      -> "redfin"
          [] n = "realtor_san_diego" -> "realtor" ]

\* The `sources` argument main is called with (<<>> stands for None).
SourceArgs ==
    { <<>>, <<"bogus">>, <<"bogus", "redfin_miami">>,
      <<"redfin_miami", "redfin_san_diego">> }

\* notifiers/__init__.py
NOTIFIERS == <<"discord", "email", "webhook">>

NotifierNames == {NOTIFIERS[i] : i \in 1..Len(NOTIFIERS)}

\* The place of notifier n in the NOTIFIERS list.
NotifierIndex(n) == CHOOSE i \in 1..Len(NOTIFIERS) : NOTIFIERS[i] = n

\* What the notify calls of one notify_all can return.
NotifyOutcomes == UNION {[c -> BOOLEAN] : c \in SUBSET NotifierNames}

\* The resources BaseScraper.start acquires, in order.
Resources == <<"playwright", "browser", "context">>

ResourceNames == {Resources[i] : i \in 1..Len(Resources)}

\* ------------------------------------------------------------------- state
VARIABLES
    table,            \* the properties table: rows in rowid order
    clock,            \* the last value datetime.utcnow() returned
    upserted,         \* natural keys for which an add_record has returned
    \* --- one monitor process (main)
    pc,               \* where main is
    config,           \* the process's environment (config.py)
    dry_run,          \* main's dry_run argument
    scrapers_to_run,  \* main's list of valid sources
    idx,              \* index of the scraper the for loop of main is at
    held,             \* resources of the current scraper acquired, not released
    fetched,          \* SpecFetch: the outcomes of the sub-fetches of fetch_all
    outbox,           \* SpecNotify: the outbound sends of notify, in order
    marked,           \* the ids mark_notified was called with, in order
    instances,        \* scraper objects this process has constructed (get_scraper)
    db_open,          \* main: db.connect() has returned and db.close() has not run
    caught,           \* run_scraper: its `except Exception` clause has caught an error
    results,          \* run_scraper: what `for result in results` has yet to yield
    ret,              \* run_scraper: (record_id, is_new) of the last add_record
    new_records,      \* run_scraper: its new_records list
    all_new_records,  \* main: the aggregated batch
    notify_calls,     \* notify invocations of this run: <<notifier, batch>>
    notify_results,   \* what notify_all returned (notifier -> bool)
    dispatched,       \* the batches notify_all was invoked with in this run
    midx,             \* main: index in the mark-notified loop
    notified_at_start,\* id -> notified, when the process started
    stats,            \* <<what get_stats returned>>, <<>> before it is called
    rc,               \* main's return value, -1 while none
    \* --- interleaved run_scraper loops (SpecConc)
    cq,               \* client -> listings still to upsert
    cpc,              \* client -> where it is in add_record
    cnow,             \* client -> `now` of the add_record in progress
    cexisting,        \* client -> id the SELECT found, 0 for none
    cret,             \* client -> returns of its add_record calls
    cerr              \* client -> did an add_record raise IntegrityError

dbVars   == <<table, clock, upserted>>
mainVars == <<pc, config, dry_run, scrapers_to_run, idx, held, fetched, outbox, marked, instances, db_open, caught, results, ret, new_records, all_new_records, notify_calls, notify_results,
              dispatched, midx, notified_at_start, stats, rc>>
concVars == <<cq, cpc, cnow, cexisting, cret, cerr>>
vars     == <<dbVars, mainVars, concVars>>

Clients == {1, 2}

\* ------------------------------------------------------ database.py (store)
\* The natural key of a record or row.
KeyOf(r) == <<r.county, r.parcel_id, r.record_type, r.sale_date>>

\* KeyMatch with the WHERE clause ending `AND sale_date = ?`: NULL matches
\* nothing.
KeyMatchPlainEquality(row, record) ==
    /\ row.county = record.county
    /\ row.parcel_id = record.parcel_id
    /\ row.record_type = record.record_type
    /\ row.sale_date # NoDate
    /\ record.sale_date # NoDate
    /\ row.sale_date = record.sale_date

\* WHERE county = ? AND parcel_id = ? AND record_type = ?
\*   AND (sale_date = ? OR (sale_date IS NULL AND ? IS NULL))
\* `sale_date = ?` is not true when either side is NULL.
KeyMatch(row, record) ==
    /\ row.county = record.county
    /\ row.parcel_id = record.parcel_id
    /\ row.record_type = record.record_type
    /\ \/ (row.sale_date # NoDate /\ record.sale_date # NoDate
             /\ row.sale_date = record.sale_date)
       \/ (row.sale_date = NoDate /\ record.sale_date = NoDate)

\* SelectExisting with the WHERE clause ending `AND sale_date = ?`: a record
\* with no sale_date finds no row.
SelectExistingDatedOnly(t, record) ==
    { t[i].id : i \in {j \in 1..Len(t) :
                         KeyMatch(t[j], record) /\ record.sale_date # NoDate} }

\* The ids the SELECT of add_record can return from fetchone().
SelectExisting(t, record) ==
    { t[i].id : i \in {j \in 1..Len(t) : KeyMatch(t[j], record)} }

\* UpdateLastSeen with the UPDATE left out: the row is found and not touched.
UpdateLastSeenSkipped(t, id, now) == t

\* UpdateLastSeen written as `SET first_seen = ?`.
UpdateFirstSeen(t, id, now) ==
    [ i \in 1..Len(t) |-> IF t[i].id = id THEN [t[i] EXCEPT !.first_seen = now] ELSE t[i] ]

\* UpdateLastSeen refreshing the row's price and notified flag as well.
UpdateLastSeenAndReset(t, id, now) ==
    [ i \in 1..Len(t) |->
        IF t[i].id = id
        THEN [t[i] EXCEPT !.last_seen = now, !.notified = FALSE]
        ELSE t[i] ]

\* UPDATE properties SET last_seen = ? WHERE id = ?
UpdateLastSeen(t, id, now) ==
    [ i \in 1..Len(t) |-> IF t[i].id = id THEN [t[i] EXCEPT !.last_seen = now] ELSE t[i] ]

\* UNIQUE(county, parcel_id, record_type, sale_date): SQLite holds NULLs to be
\* distinct from one another in a UNIQUE constraint.
ViolatesUnique(t, record) ==
    \E i \in 1..Len(t) :
        /\ t[i].county = record.county
        /\ t[i].parcel_id = record.parcel_id
        /\ t[i].record_type = record.record_type
        /\ t[i].sale_date # NoDate
        /\ record.sale_date # NoDate
        /\ t[i].sale_date = record.sale_date

\* NextRowId with the id column declared without a key: every INSERT stores
\* the same default id.
NextRowIdConstant(t) == 1

\* id INTEGER PRIMARY KEY AUTOINCREMENT; no row is ever deleted.
NextRowId(t) == Len(t) + 1

\* INSERT INTO properties (...) VALUES (..., now, now, 0); the record's own
\* first_seen, last_seen and notified are not used.
InsertRow(t, record, now) ==
    Append(t, [id |-> NextRowId(t), county |-> record.county,
               parcel_id |-> record.parcel_id, address |-> record.address,
               city |-> record.city, state |-> record.state,
               zip_code |-> record.zip_code, property_type |-> record.property_type,
               record_type |-> record.record_type, sale_price |-> record.sale_price,
               sale_date |-> record.sale_date, seller |-> record.seller,
               buyer |-> record.buyer, url |-> record.url,
               raw_data |-> record.raw_data,
               first_seen |-> now, last_seen |-> now, notified |-> FALSE])

\* mark_notified written with `WHERE id <= ?`: older rows are marked too.
mark_notified_up_to(t, id) ==
    [ i \in 1..Len(t) |->
        IF t[i].id <= id THEN [t[i] EXCEPT !.notified = TRUE] ELSE t[i] ]

\* mark_notified written as `SET notified = NOT notified`.
mark_notified_toggle(t, id) ==
    [ i \in 1..Len(t) |->
        IF t[i].id = id THEN [t[i] EXCEPT !.notified = ~t[i].notified] ELSE t[i] ]

\* mark_notified with the WHERE clause left out.
mark_notified_every_row(t, id) ==
    [ i \in 1..Len(t) |-> [t[i] EXCEPT !.notified = TRUE] ]

\* UPDATE properties SET notified = 1 WHERE id = ?
mark_notified(t, id) ==
    [ i \in 1..Len(t) |-> IF t[i].id = id THEN [t[i] EXCEPT !.notified = TRUE] ELSE t[i] ]

\* get_stats: total, notified, and the counts per county and per record_type.
get_stats(t) ==
    [total_records |-> Len(t),
     notified |-> Cardinality({i \in 1..Len(t) : t[i].notified}),
     by_county |-> [co \in {t[i].county : i \in 1..Len(t)} |->
                      Cardinality({i \in 1..Len(t) : t[i].county = co})],
     by_type |-> [ty \in {t[i].record_type : i \in 1..Len(t)} |->
                    Cardinality({i \in 1..Len(t) : t[i].record_type = ty})]]

\* datetime.utcnow(): every reading is later than the one before.
Now(c) == c + 1

\* -------------------------------------------------- scrapers/base.py
\* matches_filters with the zip rule reading `if ZIP_CODES:`: a listing with
\* no zip code is held against the whitelist too.
matches_filters_zip_required(cfg, result) ==
    LET price_truthy == result.sale_price # NoPrice /\ result.sale_price # 0
        below == cfg.MIN_PRICE # 0 /\ result.sale_price < cfg.MIN_PRICE
        above == cfg.MAX_PRICE # 0 /\ result.sale_price > cfg.MAX_PRICE
        zip_rejects == /\ cfg.ZIP_CODES # {}
                       /\ result.zip_code \notin cfg.ZIP_CODES
        type_rejects == /\ cfg.PROPERTY_TYPES # {}
                        /\ "all" \notin cfg.PROPERTY_TYPES
                        /\ result.record_type \notin cfg.PROPERTY_TYPES
                        /\ result.property_type \notin cfg.PROPERTY_TYPES
    IN  /\ ~(price_truthy /\ (below \/ above))
        /\ ~zip_rejects
        /\ ~type_rejects

\* matches_filters with the type rule looking at record_type alone.
matches_filters_record_type_only(cfg, result) ==
    LET price_truthy == result.sale_price # NoPrice /\ result.sale_price # 0
        below == cfg.MIN_PRICE # 0 /\ result.sale_price < cfg.MIN_PRICE
        above == cfg.MAX_PRICE # 0 /\ result.sale_price > cfg.MAX_PRICE
        zip_rejects == /\ cfg.ZIP_CODES # {}
                       /\ result.zip_code # ""
                       /\ result.zip_code \notin cfg.ZIP_CODES
        type_rejects == /\ cfg.PROPERTY_TYPES # {}
                        /\ "all" \notin cfg.PROPERTY_TYPES
                        /\ result.record_type \notin cfg.PROPERTY_TYPES
    IN  /\ ~(price_truthy /\ (below \/ above))
        /\ ~zip_rejects
        /\ ~type_rejects

\* BaseScraper.matches_filters under configuration cfg.
matches_filters(cfg, result) ==
    LET price_truthy == result.sale_price # NoPrice /\ result.sale_price # 0
        below == cfg.MIN_PRICE # 0 /\ result.sale_price < cfg.MIN_PRICE
        above == cfg.MAX_PRICE # 0 /\ result.sale_price > cfg.MAX_PRICE
        zip_rejects == /\ cfg.ZIP_CODES # {}
                       /\ result.zip_code # ""
                       /\ result.zip_code \notin cfg.ZIP_CODES
        type_rejects == /\ cfg.PROPERTY_TYPES # {}
                        /\ "all" \notin cfg.PROPERTY_TYPES
                        /\ result.record_type \notin cfg.PROPERTY_TYPES
                        /\ result.property_type \notin cfg.PROPERTY_TYPES
    IN  /\ ~(price_truthy /\ (below \/ above))
        /\ ~zip_rejects
        /\ ~type_rejects

\* [r for r in results if self.matches_filters(r)]
Filtered(cfg, s) == SelectSeq(s, LAMBDA r : matches_filters(cfg, r))

\* What one `try: ... results.extend(...) except Exception` of fetch_all adds.
SubFetchItems(outcome) == IF outcome.raised THEN <<>> ELSE outcome.items

\* fetch_all with one try around both sub-fetches: a failure of the first
\* skips the second.
fetch_all_single_try(cfg, sales, foreclosures) ==
    IF sales.raised
    THEN <<>>
    ELSE Filtered(cfg, sales.items \o SubFetchItems(foreclosures))

\* BaseScraper.fetch_all: both sub-fetches, each in its own try, then the filter.
fetch_all(cfg, sales, foreclosures) ==
    Filtered(cfg, SubFetchItems(sales) \o SubFetchItems(foreclosures))

\* BaseScraper.to_property_record: county is the scraper's `name`; id None.
to_property_record(site, result) ==
    [id |-> 0, county |-> site, parcel_id |-> result.parcel_id,
     address |-> result.address, city |-> result.city, state |-> result.state,
     zip_code |-> result.zip_code, property_type |-> result.property_type,
     record_type |-> result.record_type, sale_price |-> result.sale_price,
     sale_date |-> result.sale_date, seller |-> result.seller,
     buyer |-> result.buyer, url |-> result.url, raw_data |-> result.raw_data]

\* BaseScraper.start acquires Resources[1..k-1] and raises acquiring
\* Resources[k]; k = Len(Resources) + 1 is a start() that succeeds.
StartHeld(k) == {Resources[i] : i \in 1..(k - 1)}

\* StopHeld for a stop() that never calls self._playwright.stop().
StopHeldKeepsDriver(h, k) ==
    IF k = 0 THEN h \cap {Resources[1]} ELSE h \cap {Resources[i] : i \in 1..k}

\* BaseScraper.stop closes context, browser, playwright in that order, each
\* close awaited with no try around it: when the close of Resources[k] raises,
\* that one and the ones not yet reached stay open; k = 0 is a stop() in
\* which nothing raises.
StopHeld(h, k) == IF k = 0 THEN {} ELSE h \cap {Resources[i] : i \in 1..k}

\* ------------------------------------------------ notifiers/__init__.py
\* What one notify does with the request it makes: it is answered with a
\* status below 300 (SMTP: accepted), answered with a failure, or building or
\* sending it raises.
Deliveries == {"ok", "refused", "raised"}

\* discord.py line 31: records[:10], Discord's limit of embeds per message.
DiscordMaxEmbeds == 10

\* PayloadItems with the `[:10]` left out: one entry for every record.
PayloadItemsUnbounded(n, records) == records

\* The records a notifier's message carries one entry for: Discord the first
\* DiscordMaxEmbeds, email and webhook every one.
PayloadItems(n, records) ==
    IF n = "discord" /\ Len(records) > DiscordMaxEmbeds
    THEN SubSeq(records, 1, DiscordMaxEmbeds)
    ELSE records

\* notify sending the records past the first DiscordMaxEmbeds in a second
\* Discord message.
notify_in_chunks(n, configured, records, delivery) ==
    IF n \notin configured
    THEN [result |-> FALSE, sent |-> <<>>]
    ELSE IF records = <<>>
    THEN [result |-> TRUE, sent |-> <<>>]
    ELSE IF delivery = "raised"
    THEN [result |-> FALSE, sent |-> <<>>]
    ELSE [result |-> delivery = "ok",
          sent |-> IF n = "discord" /\ Len(records) > DiscordMaxEmbeds
                   THEN << [channel |-> n, count |-> Len(records),
                            items |-> SubSeq(records, 1, DiscordMaxEmbeds)],
                           [channel |-> n, count |-> Len(records),
                            items |-> SubSeq(records, DiscordMaxEmbeds + 1, Len(records))] >>
                   ELSE << [channel |-> n, count |-> Len(records),
                            items |-> PayloadItems(n, records)] >>]

\* notify with the `if not records: return True` left out.
notify_without_empty_check(n, configured, records, delivery) ==
    IF n \notin configured
    THEN [result |-> FALSE, sent |-> <<>>]
    ELSE IF delivery = "raised"
    THEN [result |-> FALSE, sent |-> <<>>]
    ELSE [result |-> delivery = "ok",
          sent |-> << [channel |-> n, count |-> Len(records),
                       items |-> PayloadItems(n, records)] >>]

\* DiscordNotifier.notify, EmailNotifier.notify, WebhookNotifier.notify: what
\* it returns and what it sends out.  format_summary counts every record.
notify(n, configured, records, delivery) ==
    IF n \notin configured
    THEN [result |-> FALSE, sent |-> <<>>]
    ELSE IF records = <<>>
    THEN [result |-> TRUE, sent |-> <<>>]
    ELSE IF delivery = "raised"
    THEN [result |-> FALSE, sent |-> <<>>]
    ELSE [result |-> delivery = "ok",
          sent |-> << [channel |-> n, count |-> Len(records),
                       items |-> PayloadItems(n, records)] >>]

\* notify_all returning from inside its loop, after the first configured
\* notifier.
NotifyOrderFirstOnly(configured) ==
    IF SelectSeq(NOTIFIERS, LAMBDA n : n \in configured) = <<>>
    THEN <<>>
    ELSE <<Head(SelectSeq(NOTIFIERS, LAMBDA n : n \in configured))>>

\* notify_all: the notifiers it calls notify on, in NOTIFIERS order.
NotifyOrder(configured) == SelectSeq(NOTIFIERS, LAMBDA n : n \in configured)

\* ------------------------------------------------------------- main.py
\* main: scrapers_to_run from the sources argument.
ScrapersToRun(sources) ==
    IF sources # <<>>
    THEN SelectSeq(sources, LAMBDA s : s \in DOMAIN SCRAPERS)
    ELSE <<"redfin_miami">>

\* ShouldNotify without the `if not dry_run`.
ShouldNotifyInDryRun(batch, dry) == batch # <<>>

\* main: `if not dry_run` under `if all_new_records`.
ShouldNotify(batch, dry) == batch # <<>> /\ ~dry

\* ShouldMark asking for a notifier to have been called at all.
ShouldMarkIfAttempted(record, channel_results) ==
    /\ record.id # 0
    /\ channel_results # <<>>

\* ShouldMark asking for a channel that delivered.
ShouldMarkIfDelivered(record, channel_results) ==
    /\ record.id # 0
    /\ \E i \in 1..Len(channel_results) : channel_results[i][2]

\* main: `if record.id` in the mark-notified loop.
ShouldMark(record, channel_results) == record.id # 0

\* run_scraper is left (return or exception): its locals are gone.
LeaveRunScraper ==
    /\ results' = <<>>
    /\ ret' = <<0, FALSE>>
    /\ new_records' = <<>>
    /\ caught' = FALSE

\* The exception leaves run_scraper, and main through `finally: await db.close()`.
Crash ==
    /\ pc' = "crashed"
    /\ db_open' = FALSE
    /\ LeaveRunScraper
    /\ UNCHANGED <<config, dry_run, scrapers_to_run, idx, fetched, outbox, marked, all_new_records,
                   notify_calls, notify_results, dispatched, midx, notified_at_start,
                   stats, rc>>

\* What the variables of one process are when it starts.
InitMain ==
    /\ pc = "init"
    /\ dry_run = FALSE
    /\ scrapers_to_run = <<>>
    /\ idx = 1
    /\ held = {}
    /\ fetched = <<>>
    /\ outbox = <<>>
    /\ marked = <<>>
    /\ instances = 0
    /\ db_open = FALSE
    /\ caught = FALSE
    /\ results = <<>>
    /\ ret = <<0, FALSE>>
    /\ new_records = <<>>
    /\ all_new_records = <<>>
    /\ notify_calls = <<>>
    /\ notify_results = <<>>
    /\ dispatched = <<>>
    /\ midx = 1
    /\ notified_at_start = <<>>
    /\ stats = <<>>
    /\ rc = -1

InitDb ==
    /\ table = <<>>
    /\ clock = 0
    /\ upserted = {}

Init ==
    /\ InitDb
    /\ InitMain
    /\ config \in Configs
    /\ cq = [c \in Clients |-> <<>>]
    /\ cpc = [c \in Clients |-> "idle"]
    /\ cnow = [c \in Clients |-> 0]
    /\ cexisting = [c \in Clients |-> 0]
    /\ cret = [c \in Clients |-> <<>>]
    /\ cerr = [c \in Clients |-> FALSE]

\* main with the database opened ahead of the validation of the sources, and
\* `return 1` outside the try whose finally closes it.
MainStartConnectsFirst(sources, dry) ==
    /\ pc = "init"
    /\ dry_run' = dry
    /\ scrapers_to_run' = ScrapersToRun(sources)
    /\ notified_at_start' = [i \in 1..Len(table) |-> table[i].notified]
    /\ db_open' = TRUE
    /\ IF ScrapersToRun(sources) = <<>>
       THEN pc' = "done" /\ rc' = 1
       ELSE pc' = "loop" /\ rc' = -1
    /\ UNCHANGED <<dbVars, concVars, config, idx, held, fetched, outbox, marked, instances, caught, results, ret,
                   new_records, all_new_records, notify_calls, notify_results,
                   dispatched, midx, stats>>

\* main, lines 71-91: a process starts; validate the sources, open the database.
MainStart(sources, dry) ==
    /\ pc = "init"
    /\ dry_run' = dry
    /\ scrapers_to_run' = ScrapersToRun(sources)
    /\ notified_at_start' = [i \in 1..Len(table) |-> table[i].notified]
    /\ IF ScrapersToRun(sources) = <<>>
       THEN pc' = "done" /\ rc' = 1 /\ db_open' = FALSE
       ELSE pc' = "loop" /\ rc' = -1 /\ db_open' = TRUE
    /\ UNCHANGED <<dbVars, concVars, config, idx, held, fetched, outbox, marked, instances, caught, results, ret,
                   new_records, all_new_records, notify_calls, notify_results,
                   dispatched, midx, stats>>

\* run_scraper, lines 34-38: get_scraper constructs a scraper object, then
\* `async with scraper` enters through start(), which raises at step k or
\* succeeds.
ScraperStart(k) ==
    /\ pc = "loop"
    /\ idx <= Len(scrapers_to_run)
    /\ instances' = instances + 1
    /\ held' = StartHeld(k)
    /\ IF k <= Len(Resources)
       THEN Crash
       ELSE /\ pc' = "started"
            /\ UNCHANGED <<config, dry_run, scrapers_to_run, idx, fetched, outbox, db_open, caught, marked, results, ret,
                           new_records, all_new_records, notify_calls, notify_results,
                           dispatched, midx, notified_at_start, stats, rc>>
    /\ UNCHANGED <<dbVars, concVars>>

\* run_scraper, line 42: results = await scraper.fetch_all(), the sub-fetches
\* ending as `sales` and `foreclosures` say.
FetchAllCall(sales, foreclosures) ==
    /\ pc = "started"
    /\ results' = fetch_all(config, sales, foreclosures)
    /\ pc' = "upsert"
    /\ UNCHANGED <<dbVars, concVars, config, dry_run, scrapers_to_run, idx, held, outbox, db_open, caught, marked, instances, ret,
                   new_records, all_new_records, notify_calls, notify_results,
                   dispatched, midx, notified_at_start, stats, rc>>

FetchAll(sales, foreclosures) ==
    /\ FetchAllCall(sales, foreclosures)
    /\ UNCHANGED fetched

\* run_scraper, line 45: record = scraper.to_property_record(result)
CurrentRecord == to_property_record(SCRAPERS[scrapers_to_run[idx]], Head(results))

\* run_scraper, lines 44-63: one iteration of the loop over results, with the
\* whole of add_record.  (The screenshot of lines 56-63 runs in its own
\* try/except and changes nothing kept here.)
UpsertNext ==
    /\ pc = "upsert"
    /\ results # <<>>
    /\ clock < MaxClock
    /\ LET now == Now(clock)
           record == CurrentRecord
           existing == SelectExisting(table, record)
       IN  /\ IF existing # {}
              THEN \E id \in existing :
                      /\ table' = UpdateLastSeen(table, id, now)
                      /\ ret' = <<id, FALSE>>
                      /\ new_records' = new_records
              ELSE /\ ~ViolatesUnique(table, record)
                   /\ table' = InsertRow(table, record, now)
                   /\ ret' = <<NextRowId(table), TRUE>>
                   /\ new_records' =
                        Append(new_records, [record EXCEPT !.id = NextRowId(table)])
           /\ upserted' = upserted \cup {KeyOf(record)}
    /\ clock' = Now(clock)
    /\ results' = Tail(results)
    /\ UNCHANGED <<concVars, pc, config, dry_run, scrapers_to_run, idx, held, fetched, outbox, db_open, caught, marked, instances,
                   all_new_records, notify_calls, notify_results, dispatched, midx,
                   notified_at_start, stats, rc>>

\* run_scraper with the try around the whole body and `return []` in the
\* except clause: what the batch had produced before the error is dropped.
UpsertRaiseDropsCollected ==
    /\ pc = "upsert"
    /\ results # <<>>
    /\ results' = <<>>
    /\ caught' = TRUE
    /\ new_records' = <<>>
    /\ UNCHANGED <<dbVars, concVars, pc, config, dry_run, scrapers_to_run, idx, held,
                   fetched, outbox, db_open, marked, instances, ret, all_new_records, notify_calls,
                   notify_results, dispatched, midx, notified_at_start, stats, rc>>

\* run_scraper, lines 65-66: to_property_record or add_record raises; the
\* except around the loop logs it, the rest of the batch is never looked at,
\* and control reaches the end of the `async with` block as it does when
\* the loop ends.
UpsertRaise ==
    /\ pc = "upsert"
    /\ results # <<>>
    /\ results' = <<>>
    /\ caught' = TRUE
    /\ UNCHANGED <<dbVars, concVars, pc, config, dry_run, scrapers_to_run, idx, held,
                   fetched, outbox, db_open, marked, instances, ret, new_records, all_new_records, notify_calls,
                   notify_results, dispatched, midx, notified_at_start, stats, rc>>

\* run_scraper, line 38 (__aexit__ -> stop()) and line 68, main lines 98-99:
\* the close of Resources[k] raises (k = 0: none does); on success run_scraper
\* returns new_records and main extends all_new_records.
ScraperStop(k) ==
    /\ pc = "upsert"
    /\ results = <<>>
    /\ held' = StopHeld(held, k)
    /\ UNCHANGED instances
    /\ IF k # 0
       THEN Crash
       ELSE /\ pc' = "loop"
            /\ all_new_records' = all_new_records \o new_records
            /\ idx' = idx + 1
            /\ LeaveRunScraper
            /\ UNCHANGED <<config, dry_run, scrapers_to_run, fetched, outbox, db_open, marked, notify_calls,
                           notify_results, dispatched, midx, notified_at_start, stats,
                           rc>>
    /\ UNCHANGED <<dbVars, concVars>>

\* main, lines 120-125: notify_all(all_new_records) calls notify on every
\* configured notifier in NOTIFIERS order; each returns a bool.
NotifyAll(outcome) ==
    /\ outcome \in [config.configured -> BOOLEAN]
    /\ pc = "loop"
    /\ idx > Len(scrapers_to_run)
    /\ ShouldNotify(all_new_records, dry_run)
    /\ notify_calls' = [i \in 1..Len(NotifyOrder(config.configured)) |->
                          <<NotifyOrder(config.configured)[i], all_new_records>>]
    /\ notify_results' = [i \in 1..Len(NotifyOrder(config.configured)) |->
                            <<NotifyOrder(config.configured)[i],
                              outcome[NotifyOrder(config.configured)[i]]>>]
    /\ dispatched' = Append(dispatched, all_new_records)
    /\ midx' = 1
    /\ pc' = "mark"
    /\ UNCHANGED <<dbVars, concVars, config, dry_run, scrapers_to_run, idx, held,
                   fetched, outbox, db_open, caught, marked, instances, results, ret, new_records, all_new_records,
                   notified_at_start, stats, rc>>

\* main, lines 128-130: one iteration of the mark-notified loop.
MarkNotified ==
    /\ pc = "mark"
    /\ midx <= Len(all_new_records)
    /\ table' = IF ShouldMark(all_new_records[midx], notify_results)
                THEN mark_notified(table, all_new_records[midx].id)
                ELSE table
    /\ marked' = IF ShouldMark(all_new_records[midx], notify_results)
                 THEN Append(marked, all_new_records[midx].id)
                 ELSE marked
    /\ midx' = midx + 1
    /\ UNCHANGED <<clock, upserted, concVars, pc, config, dry_run, scrapers_to_run,
                   idx, held, fetched, outbox, db_open, caught, instances, results, ret, new_records, all_new_records,
                   notify_calls, notify_results, dispatched, notified_at_start, stats,
                   rc>>

\* main, lines 134-144: get_stats, the report, return 0 through db.close().
Stats ==
    /\ \/ pc = "mark" /\ midx > Len(all_new_records)
       \/ /\ pc = "loop"
          /\ idx > Len(scrapers_to_run)
          /\ ~ShouldNotify(all_new_records, dry_run)
    /\ stats' = <<get_stats(table)>>
    /\ rc' = 0
    /\ db_open' = FALSE
    /\ pc' = "done"
    /\ UNCHANGED <<dbVars, concVars, config, dry_run, scrapers_to_run, idx, held,
                   fetched, outbox, marked, instances, caught, results, ret, new_records, all_new_records, notify_calls,
                   notify_results, dispatched, midx, notified_at_start>>

\* The process has ended; the next one starts from a fresh interpreter, in
\* environment cfg, with the database file as the last one left it.
NextProcess(cfg) ==
    /\ pc \in {"done", "crashed"}
    /\ pc' = "init"
    /\ config' = cfg
    /\ dry_run' = FALSE
    /\ scrapers_to_run' = <<>>
    /\ idx' = 1
    /\ held' = {}
    /\ LeaveRunScraper
    /\ all_new_records' = <<>>
    /\ notify_calls' = <<>>
    /\ notify_results' = <<>>
    /\ dispatched' = <<>>
    /\ midx' = 1
    /\ notified_at_start' = <<>>
    /\ stats' = <<>>
    /\ rc' = -1
    /\ marked' = <<>>
    /\ instances' = 0
    /\ db_open' = FALSE
    /\ UNCHANGED <<dbVars, concVars, fetched, outbox>>

Next ==
    \/ \E sources \in SourceArgs, dry \in BOOLEAN : MainStart(sources, dry)
    \/ \E k \in 1..(Len(Resources) + 1) : ScraperStart(k)
    \/ \E sales \in SalesOutcomes, foreclosures \in ForeclosureOutcomes :
            FetchAll(sales, foreclosures)
    \/ UpsertNext
    \/ UpsertRaise
    \/ \E k \in 0..Len(Resources) : ScraperStop(k)
    \/ \E outcome \in NotifyOutcomes : NotifyAll(outcome)
    \/ MarkNotified
    \/ Stats
    \/ \E cfg \in Configs : NextProcess(cfg)

Spec == Init /\ [][Next]_vars

\* ------------------------------------------------------------ SpecFetch
\* fetch_all as a function of what its sub-fetches do: a scraper has just
\* started, and the call is made once, its sub-fetch outcomes kept.
InitFetch ==
    /\ InitDb
    /\ config \in FetchConfigs
    /\ pc = "started"
    /\ dry_run = FALSE
    /\ scrapers_to_run = <<"redfin_miami">>
    /\ idx = 1
    /\ held = ResourceNames
    /\ fetched = <<>>
    /\ outbox = <<>>
    /\ marked = <<>>
    /\ instances = 0
    /\ db_open = TRUE
    /\ caught = FALSE
    /\ results = <<>>
    /\ ret = <<0, FALSE>>
    /\ new_records = <<>>
    /\ all_new_records = <<>>
    /\ notify_calls = <<>>
    /\ notify_results = <<>>
    /\ dispatched = <<>>
    /\ midx = 1
    /\ notified_at_start = <<>>
    /\ stats = <<>>
    /\ rc = -1
    /\ cq = [c \in Clients |-> <<>>]
    /\ cpc = [c \in Clients |-> "idle"]
    /\ cnow = [c \in Clients |-> 0]
    /\ cexisting = [c \in Clients |-> 0]
    /\ cret = [c \in Clients |-> <<>>]
    /\ cerr = [c \in Clients |-> FALSE]

FetchAllTraced(sales, foreclosures) ==
    /\ FetchAllCall(sales, foreclosures)
    /\ fetched' = <<sales, foreclosures>>

NextFetch ==
    \E sales \in SubFetchOutcomes(FetchSalesPool, MaxFetch),
       foreclosures \in ForeclosureOutcomes :
        FetchAllTraced(sales, foreclosures)

SpecFetch == InitFetch /\ [][NextFetch]_vars

\* SpecFetch: the listings the sub-fetches of the fetch_all call returned.
FetchedItems ==
    IF fetched = <<>> THEN {}
    ELSE {fetched[1].items[i] : i \in 1..Len(fetched[1].items)}
            \cup {fetched[2].items[i] : i \in 1..Len(fetched[2].items)}

\* SpecFetch: listing x is in the list fetch_all returned.
Returned(x) == \E i \in 1..Len(results) : results[i] = x

\* ------------------------------------------------------------- SpecConc
\* Two run_scraper loops of the same scraper class share the properties
\* table (two tasks on one connection, or two overlapping monitor
\* processes on one database file).  Each add_record is taken at its await
\* points: the SELECT (lines 129-139), then the UPDATE (141-148) or the
\* INSERT (150-180) with its commit.
ConcPool ==
    { to_property_record("redfin", Listing("X1", "sale", 300000, "2024-03-01")),
      to_property_record("redfin", Listing("X1", "foreclosure", NoPrice, NoDate)) }

InitConc ==
    /\ InitDb
    /\ InitMain
    /\ config \in Configs
    /\ cq \in [Clients -> SeqsUpTo(ConcPool, MaxQueue)]
    /\ cpc = [c \in Clients |-> "idle"]
    /\ cnow = [c \in Clients |-> 0]
    /\ cexisting = [c \in Clients |-> 0]
    /\ cret = [c \in Clients |-> <<>>]
    /\ cerr = [c \in Clients |-> FALSE]

\* add_record, lines 129-139: now = utcnow(); SELECT id ...; fetchone().
CSelect(c) ==
    /\ cpc[c] = "idle"
    /\ cq[c] # <<>>
    /\ clock' = Now(clock)
    /\ cnow' = [cnow EXCEPT ![c] = Now(clock)]
    /\ IF SelectExisting(table, Head(cq[c])) = {}
       THEN cexisting' = [cexisting EXCEPT ![c] = 0]
       ELSE \E id \in SelectExisting(table, Head(cq[c])) :
               cexisting' = [cexisting EXCEPT ![c] = id]
    /\ cpc' = [cpc EXCEPT ![c] = "selected"]
    /\ UNCHANGED <<table, upserted, cq, cret, cerr, mainVars>>

\* add_record, lines 141-148: the row exists; UPDATE last_seen, return (id, False).
CUpdate(c) ==
    /\ cpc[c] = "selected"
    /\ cexisting[c] # 0
    /\ table' = UpdateLastSeen(table, cexisting[c], cnow[c])
    /\ cret' = [cret EXCEPT ![c] = Append(@, <<cexisting[c], FALSE>>)]
    /\ upserted' = upserted \cup {KeyOf(Head(cq[c]))}
    /\ cq' = [cq EXCEPT ![c] = Tail(@)]
    /\ cpc' = [cpc EXCEPT ![c] = "idle"]
    /\ cnow' = [cnow EXCEPT ![c] = 0]
    /\ cexisting' = [cexisting EXCEPT ![c] = 0]
    /\ UNCHANGED <<clock, cerr, mainVars>>

\* add_record, lines 150-180: no row was found; INSERT.  When the UNIQUE
\* constraint refuses the row, execute() raises sqlite3.IntegrityError:
\* add_record has no handler, and the `except Exception` of run_scraper
\* (line 65) ends the loop over results.
CInsert(c) ==
    /\ cpc[c] = "selected"
    /\ cexisting[c] = 0
    /\ IF ViolatesUnique(table, Head(cq[c]))
       THEN /\ cerr' = [cerr EXCEPT ![c] = TRUE]
            /\ cq' = [cq EXCEPT ![c] = <<>>]
            /\ UNCHANGED <<table, upserted, cret>>
       ELSE /\ table' = InsertRow(table, Head(cq[c]), cnow[c])
            /\ cret' = [cret EXCEPT ![c] = Append(@, <<NextRowId(table), TRUE>>)]
            /\ upserted' = upserted \cup {KeyOf(Head(cq[c]))}
            /\ cq' = [cq EXCEPT ![c] = Tail(@)]
            /\ UNCHANGED cerr
    /\ cpc' = [cpc EXCEPT ![c] = "idle"]
    /\ cnow' = [cnow EXCEPT ![c] = 0]
    /\ UNCHANGED <<clock, cexisting, mainVars>>

NextConc ==
    \/ \E c \in Clients : CSelect(c)
    \/ \E c \in Clients : CUpdate(c)
    \/ \E c \in Clients : CInsert(c)

SpecConc == InitConc /\ [][NextConc]_vars

\* ------------------------------------------------------------- SpecStore
\* The Database object on its own: any sequence of add_record, mark_notified
\* and get_stats calls, each awaited to its return.
StorePool ==
    { to_property_record("redfin", Listing("X1", "sale", 300000, "2024-03-01")),
      to_property_record("redfin", Listing("X1", "sale", 310000, "2024-03-01")),
      to_property_record("redfin", Listing("X1", "foreclosure", NoPrice, NoDate)) }

InitStore ==
    /\ InitDb
    /\ config \in Configs
    /\ pc = "store"
    /\ dry_run = FALSE
    /\ scrapers_to_run = <<>>
    /\ idx = 1
    /\ held = {}
    /\ fetched = <<>>
    /\ outbox = <<>>
    /\ marked = <<>>
    /\ instances = 0
    /\ db_open = TRUE
    /\ caught = FALSE
    /\ results = <<>>
    /\ ret = <<0, FALSE>>
    /\ new_records = <<>>
    /\ all_new_records = <<>>
    /\ notify_calls = <<>>
    /\ notify_results = <<>>
    /\ dispatched = <<>>
    /\ midx = 1
    /\ notified_at_start = <<>>
    /\ stats = <<>>
    /\ rc = -1
    /\ cq = [c \in Clients |-> <<>>]
    /\ cpc = [c \in Clients |-> "idle"]
    /\ cnow = [c \in Clients |-> 0]
    /\ cexisting = [c \in Clients |-> 0]
    /\ cret = [c \in Clients |-> <<>>]
    /\ cerr = [c \in Clients |-> FALSE]

\* Database.add_record(record), lines 122-180, from call to return.
add_record(record) ==
    /\ LET now == Now(clock)
           existing == SelectExisting(table, record)
       IN  IF existing # {}
           THEN \E id \in existing :
                   /\ table' = UpdateLastSeen(table, id, now)
                   /\ ret' = <<id, FALSE>>
           ELSE /\ ~ViolatesUnique(table, record)
                /\ table' = InsertRow(table, record, now)
                /\ ret' = <<NextRowId(table), TRUE>>
    /\ upserted' = upserted \cup {KeyOf(record)}
    /\ clock' = Now(clock)

\* await db.add_record(record)
StoreAdd(record) ==
    /\ pc = "store"
    /\ clock < MaxClock
    /\ add_record(record)
    /\ UNCHANGED <<concVars, pc, config, dry_run, scrapers_to_run, idx, held, fetched,
                   outbox, db_open, caught, marked, instances, results, new_records, all_new_records,
                   notify_calls, notify_results, dispatched, midx, notified_at_start,
                   stats, rc>>

\* await db.mark_notified(id), for the id of a row of the table.
StoreMark(id) ==
    /\ pc = "store"
    /\ id \in 1..Len(table)
    /\ Len(marked) < MaxMarks
    /\ table' = mark_notified(table, id)
    /\ marked' = Append(marked, id)
    /\ UNCHANGED <<clock, upserted, concVars, pc, config, dry_run, scrapers_to_run, idx,
                   held, fetched, outbox, db_open, caught, instances, results, ret, new_records,
                   all_new_records, notify_calls, notify_results, dispatched, midx,
                   notified_at_start, stats, rc>>

\* await db.get_stats()
StoreStats ==
    /\ pc = "store"
    /\ stats' = <<get_stats(table)>>
    /\ UNCHANGED <<dbVars, concVars, pc, config, dry_run, scrapers_to_run, idx, held,
                   fetched, outbox, db_open, caught, marked, instances, results, ret, new_records,
                   all_new_records, notify_calls, notify_results, dispatched, midx,
                   notified_at_start, rc>>

NextStore ==
    \/ \E record \in StorePool : StoreAdd(record)
    \/ \E id \in 1..MaxClock : StoreMark(id)
    \/ StoreStats

SpecStore == InitStore /\ [][NextStore]_vars

\* ------------------------------------------------------------ SpecNotify
\* One call of a notifier's notify, over the batches it can be given, the
\* notifiers that are configured and what becomes of the request.
\* The i-th new record of a batch, with the id add_record gave it.
NotifyRecord(i) ==
    [to_property_record("redfin",
        Listing("X1", IF i % 2 = 1 THEN "sale" ELSE "foreclosure",
                300000 + i, "2024-03-01"))
     EXCEPT !.id = i]

\* A batch of n new records.
Batch(n) == [i \in 1..n |-> NotifyRecord(i)]

\* The environments of a notifier: every choice of configured notifiers.
NotifyConfigs ==
    { [MIN_PRICE |-> 0, MAX_PRICE |-> 0, ZIP_CODES |-> {}, PROPERTY_TYPES |-> {"all"},
       configured |-> c] : c \in SUBSET NotifierNames }

InitNotify ==
    /\ InitDb
    /\ config \in NotifyConfigs
    /\ all_new_records \in {Batch(n) : n \in 0..MaxBatch}
    /\ pc = "notify"
    /\ dry_run = FALSE
    /\ scrapers_to_run = <<"redfin_miami">>
    /\ idx = 2
    /\ held = {}
    /\ fetched = <<>>
    /\ outbox = <<>>
    /\ marked = <<>>
    /\ instances = 0
    /\ db_open = TRUE
    /\ caught = FALSE
    /\ results = <<>>
    /\ ret = <<0, FALSE>>
    /\ new_records = <<>>
    /\ notify_calls = <<>>
    /\ notify_results = <<>>
    /\ dispatched = <<>>
    /\ midx = 1
    /\ notified_at_start = <<>>
    /\ stats = <<>>
    /\ rc = -1
    /\ cq = [c \in Clients |-> <<>>]
    /\ cpc = [c \in Clients |-> "idle"]
    /\ cnow = [c \in Clients |-> 0]
    /\ cexisting = [c \in Clients |-> 0]
    /\ cret = [c \in Clients |-> <<>>]
    /\ cerr = [c \in Clients |-> FALSE]

\* await notifier.notify(records) on notifier n.
NotifyCall(n, delivery) ==
    /\ pc = "notify"
    /\ notify_calls = <<>>
    /\ notify_calls' = << <<n, all_new_records>> >>
    /\ notify_results' =
          << <<n, notify(n, config.configured, all_new_records, delivery).result>> >>
    /\ outbox' = outbox \o notify(n, config.configured, all_new_records, delivery).sent
    /\ UNCHANGED <<dbVars, concVars, pc, config, dry_run, scrapers_to_run, idx, held,
                   fetched, db_open, caught, marked, instances, results, ret, new_records,
                   all_new_records, dispatched, midx, notified_at_start, stats, rc>>

NextNotify ==
    \E n \in NotifierNames, delivery \in Deliveries : NotifyCall(n, delivery)

SpecNotify == InitNotify /\ [][NextNotify]_vars

\* ---------------------------------------------------------- SpecDispatch
\* main after its adapters have run: a batch of new records is in the table
\* and in all_new_records; notify_all sends it, the loop marks it, get_stats
\* reports.
\* The i-th new record of the batch: listings of distinct parcels.
DispatchRecord(i) == [NotifyRecord(i) EXCEPT !.parcel_id = ToString(i)]

DispatchBatch(n) == [i \in 1..n |-> DispatchRecord(i)]

\* The table after add_record has inserted the first n records of the batch,
\* the i-th at time i.
RECURSIVE StoredBatch(_)
StoredBatch(n) ==
    IF n = 0 THEN <<>> ELSE InsertRow(StoredBatch(n - 1), DispatchRecord(n), n)

\* What becomes of the request of each notifier during one notify_all.
DeliveryOutcomes == [NotifierNames -> Deliveries]

\* What the notifiers of `order` send, one after the other.
RECURSIVE SentAll(_, _, _, _)
SentAll(order, configured, records, delivery) ==
    IF order = <<>>
    THEN <<>>
    ELSE notify(Head(order), configured, records, delivery[Head(order)]).sent
         \o SentAll(Tail(order), configured, records, delivery)

InitDispatch ==
    /\ \E n \in 0..MaxBatch :
          /\ table = StoredBatch(n)
          /\ clock = n
          /\ upserted = {KeyOf(DispatchRecord(i)) : i \in 1..n}
          /\ all_new_records = DispatchBatch(n)
          /\ notified_at_start = [i \in 1..n |-> FALSE]
    /\ config \in NotifyConfigs
    /\ dry_run \in BOOLEAN
    /\ pc = "loop"
    /\ scrapers_to_run = <<"redfin_miami">>
    /\ idx = 2
    /\ held = {}
    /\ fetched = <<>>
    /\ outbox = <<>>
    /\ marked = <<>>
    /\ instances = 1
    /\ db_open = TRUE
    /\ caught = FALSE
    /\ results = <<>>
    /\ ret = <<0, FALSE>>
    /\ new_records = <<>>
    /\ notify_calls = <<>>
    /\ notify_results = <<>>
    /\ dispatched = <<>>
    /\ midx = 1
    /\ stats = <<>>
    /\ rc = -1
    /\ cq = [c \in Clients |-> <<>>]
    /\ cpc = [c \in Clients |-> "idle"]
    /\ cnow = [c \in Clients |-> 0]
    /\ cexisting = [c \in Clients |-> 0]
    /\ cret = [c \in Clients |-> <<>>]
    /\ cerr = [c \in Clients |-> FALSE]

\* main, lines 120-125: notify_all(all_new_records), each configured
\* notifier's request ending as `delivery` says, with what is sent kept.
NotifyAllSend(delivery) ==
    /\ delivery \in DeliveryOutcomes
    /\ pc = "loop"
    /\ idx > Len(scrapers_to_run)
    /\ ShouldNotify(all_new_records, dry_run)
    /\ notify_calls' = [i \in 1..Len(NotifyOrder(config.configured)) |->
                          <<NotifyOrder(config.configured)[i], all_new_records>>]
    /\ notify_results' = [i \in 1..Len(NotifyOrder(config.configured)) |->
                            <<NotifyOrder(config.configured)[i],
                              notify(NotifyOrder(config.configured)[i], config.configured,
                                     all_new_records,
                                     delivery[NotifyOrder(config.configured)[i]]).result>>]
    /\ outbox' = outbox \o SentAll(NotifyOrder(config.configured), config.configured,
                                    all_new_records, delivery)
    /\ dispatched' = Append(dispatched, all_new_records)
    /\ midx' = 1
    /\ pc' = "mark"
    /\ UNCHANGED <<dbVars, concVars, config, dry_run, scrapers_to_run, idx, held,
                   fetched, db_open, caught, marked, instances, results, ret, new_records,
                   all_new_records, notified_at_start, stats, rc>>

NextDispatch ==
    \/ \E delivery \in DeliveryOutcomes : NotifyAllSend(delivery)
    \/ MarkNotified
    \/ Stats

SpecDispatch == InitDispatch /\ [][NextDispatch]_vars

\* ------------------------------------------------------------ properties
\* The rows of t whose natural key is k.
RowsWithKey(t, k) == {i \in 1..Len(t) : KeyOf(t[i]) = k}

\* (county, parcel_id, record_type) of a record or row.
TripleOf(r) == <<r.county, r.parcel_id, r.record_type>>

\* A step of Spec in which add_record ran to its return.
AddRecordStep == pc = "upsert" /\ clock' # clock

\* C1 (SpecConc).  Key uniqueness: after any interleaving of add_record
\* calls, the properties table holds exactly one row for each
\* (county, parcel_id, record_type, sale_date) that was ever upserted,
\* keys with no sale_date included.
KeyUniqueness ==
    \A k \in upserted : Cardinality(RowsWithKey(table, k)) = 1

\* C2 (Spec).  Idempotent upsert: add_record of a record whose natural key
\* is not in the table returns is_new = True and appends one row; add_record
\* of a record whose key is in the table returns (id of that row, False) and
\* changes last_seen of that row and nothing else: no other column of it, no
\* other row, no new row, and the record is not reported as new.
IdempotentUpsert ==
    [][ AddRecordStep =>
          LET present == RowsWithKey(table, KeyOf(CurrentRecord))
          IN  IF present = {}
              THEN /\ ret'[2] = TRUE
                   /\ Len(table') = Len(table) + 1
                   /\ \A i \in 1..Len(table) : table'[i] = table[i]
                   /\ KeyOf(table'[Len(table')]) = KeyOf(CurrentRecord)
                   /\ table'[Len(table')].id = ret'[1]
              ELSE /\ ret'[2] = FALSE
                   /\ ret'[1] \in {table[i].id : i \in present}
                   /\ Len(table') = Len(table)
                   /\ new_records' = new_records
                   /\ \A i \in 1..Len(table) :
                        IF table[i].id = ret'[1]
                        THEN table'[i] =
                               [table[i] EXCEPT !.last_seen = table'[i].last_seen]
                        ELSE table'[i] = table[i]
      ]_vars

\* C2 witness: a row that was notified has been seen again by a later
\* add_record, which returned (its id, False).
IdempotentUpsertWitness ==
    /\ pc = "upsert"
    /\ \E i \in 1..Len(table) :
          /\ table[i].notified
          /\ table[i].last_seen > table[i].first_seen
          /\ ret = <<table[i].id, FALSE>>

\* C3 (SpecConc).  Storage-error handling: an INSERT of add_record that the
\* uniqueness constraint refuses is resolved as an update of the existing
\* row; the violation is never raised to run_scraper.
ConstraintViolationNeverRaised ==
    \A c \in Clients : ~cerr[c]

\* C4 (Spec).  Null-date bucket: add_record of a record with no sale_date
\* returns is_new = False for the date-less row of its triple when there is
\* one, so that a triple never has two date-less rows; a record with a
\* sale_date and a date-less row of the same triple (and the other way round)
\* do not match: when the table holds the triple only the other way, the
\* record is inserted as a new row.
NullDateBucket ==
    [][ AddRecordStep =>
          LET record == CurrentRecord
              sameTriple == {i \in 1..Len(table) : TripleOf(table[i]) = TripleOf(record)}
              dateless == {i \in sameTriple : table[i].sale_date = NoDate}
              dated == sameTriple \ dateless
          IN  /\ (record.sale_date = NoDate /\ dateless # {}) =>
                    /\ ret'[2] = FALSE
                    /\ ret'[1] \in {table[i].id : i \in dateless}
                    /\ Len(table') = Len(table)
              /\ (record.sale_date = NoDate /\ dateless = {}) =>
                    /\ ret'[2] = TRUE
                    /\ Len(table') = Len(table) + 1
              /\ (record.sale_date # NoDate /\ dated = {}) =>
                    /\ ret'[2] = TRUE
                    /\ Len(table') = Len(table) + 1
              /\ Cardinality({i \in 1..Len(table') :
                                /\ TripleOf(table'[i]) = TripleOf(record)
                                /\ table'[i].sale_date = NoDate}) <= 1
      ]_vars

\* C4 witness: a date-less row that a second date-less record was mapped to,
\* beside a dated row of the same triple.
NullDateBucketWitness ==
    \E i, j \in 1..Len(table) :
        /\ table[i].sale_date = NoDate
        /\ table[i].last_seen > table[i].first_seen
        /\ table[j].sale_date # NoDate
        /\ TripleOf(table[i]) = TripleOf(table[j])

\* C5 (Spec).  Dry run: in a run of main with dry_run = True no notifier's
\* notify is invoked, notify_all is not called, the mark-notified loop is not
\* entered, and every row's notified flag is what it was when the run
\* started (False for the rows the run inserted).
DryRunSuppresses ==
    dry_run =>
        /\ notify_calls = <<>>
        /\ dispatched = <<>>
        /\ pc # "mark"
        /\ \A i \in 1..Len(table) :
              table[i].notified =
                 (IF i <= Len(notified_at_start) THEN notified_at_start[i] ELSE FALSE)

\* C5 witness: a dry run with configured notifiers has ended with new
\* records in its batch, in a table that held a notified row before.
DryRunSuppressesWitness ==
    /\ dry_run
    /\ pc = "done"
    /\ all_new_records # <<>>
    /\ config.configured # {}
    /\ \E i \in 1..Len(table) : table[i].notified

\* C6 (Spec).  Notified lifecycle: notified of a row never goes from true to
\* false; it goes from false to true only in the mark-notified loop, after
\* notify_all was invoked in this run with a batch holding that row; a new
\* row starts at false.
NotifiedLifecycle ==
    [][ /\ Len(table') >= Len(table)
        /\ \A i \in 1..Len(table) :
              /\ table[i].notified => table'[i].notified
              /\ (~table[i].notified /\ table'[i].notified) =>
                    /\ pc = "mark"
                    /\ \E b \in 1..Len(dispatched) :
                          \E j \in 1..Len(dispatched[b]) :
                              dispatched[b][j].id = table[i].id
        /\ \A i \in (Len(table) + 1)..Len(table') : ~table'[i].notified
      ]_vars

\* C6 witness: the mark-notified loop has set the flag of a row of this
\* run's batch while another row, not in the batch, is still unnotified.
NotifiedLifecycleWitness ==
    /\ pc = "mark"
    /\ midx > 1
    /\ table[all_new_records[1].id].notified
    /\ \E i \in 1..Len(table) :
          /\ ~table[i].notified
          /\ \A j \in 1..Len(all_new_records) : all_new_records[j].id # i

\* C7 (Spec).  Attempted-is-sufficient marking: a non-dry run with a
\* non-empty aggregated batch that has come to its end has invoked notify_all
\* and every record of the batch is notified in the table, whatever the
\* notifiers returned.
AttemptedIsSufficient ==
    (pc = "done" /\ rc = 0 /\ ~dry_run /\ all_new_records # <<>>) =>
        /\ dispatched = <<all_new_records>>
        /\ \A j \in 1..Len(all_new_records) :
              /\ all_new_records[j].id \in 1..Len(table)
              /\ table[all_new_records[j].id].notified

\* C7 witness: the run has ended, every notifier that was called returned
\* False, and the batch is marked.
AttemptedIsSufficientWitness ==
    /\ pc = "done"
    /\ rc = 0
    /\ ~dry_run
    /\ all_new_records # <<>>
    /\ notify_results # <<>>
    /\ \A i \in 1..Len(notify_results) : ~notify_results[i][2]
    /\ table[all_new_records[1].id].notified

\* C8 (SpecFetch).  Sub-fetch failure isolation: fetch_all returns to
\* run_scraper whatever its sub-fetches do, with the filtered results of the
\* sub-fetches that did not raise, sales first.
SubFetchIsolation ==
    fetched # <<>> =>
        /\ pc = "upsert"
        /\ (fetched[1].raised /\ ~fetched[2].raised) =>
              results = Filtered(config, fetched[2].items)
        /\ (~fetched[1].raised /\ fetched[2].raised) =>
              results = Filtered(config, fetched[1].items)
        /\ (fetched[1].raised /\ fetched[2].raised) => results = <<>>
        /\ (~fetched[1].raised /\ ~fetched[2].raised) =>
              results = Filtered(config, fetched[1].items \o fetched[2].items)

\* C8 witness: fetch_recent_sales raised and fetch_all returned the
\* foreclosures.
SubFetchIsolationWitness ==
    /\ fetched # <<>>
    /\ fetched[1].raised
    /\ ~fetched[2].raised
    /\ results # <<>>
    /\ pc = "upsert"

\* C9 (Spec).  Scoped resource release: whenever control is in main and not
\* in run_scraper, no resource of a scraper is held, on every exit path of
\* run_scraper.
ScopedRelease ==
    pc \in {"init", "loop", "mark", "done", "crashed"} => held = {}

\* C10 (Spec).  Statistics are always reported: a run of main that passed
\* source validation and has ended has called get_stats.
StatsAlwaysReported ==
    (pc \in {"done", "crashed"} /\ rc # 1) => stats # <<>>

\* C11 (Spec).  Exit code: a run of main that has ended returned 1 when no
\* requested source is a key of SCRAPERS, and returned 0 in every other
\* case, runs in which an adapter failed partly or entirely included.
ExitCode ==
    pc \in {"done", "crashed"} =>
        rc = (IF scrapers_to_run = <<>> THEN 1 ELSE 0)

\* C12 (Spec).  Channel isolation: once notify_all has been invoked, notify
\* was called exactly once on every configured notifier and on no other,
\* each time with the full batch, in NOTIFIERS order, whatever the earlier
\* notifiers returned; and notify_all returned one boolean per configured
\* notifier.
ChannelIsolation ==
    dispatched # <<>> =>
        /\ \A n \in config.configured :
              Cardinality({i \in 1..Len(notify_calls) : notify_calls[i][1] = n}) = 1
        /\ \A i \in 1..Len(notify_calls) :
              /\ notify_calls[i][1] \in config.configured
              /\ notify_calls[i][2] = all_new_records
        /\ \A i, j \in 1..Len(notify_calls) :
              i < j => NotifierIndex(notify_calls[i][1]) < NotifierIndex(notify_calls[j][1])
        /\ Len(notify_results) = Cardinality(config.configured)
        /\ \A n \in config.configured :
              \E i \in 1..Len(notify_results) :
                  notify_results[i][1] = n /\ notify_results[i][2] \in BOOLEAN

\* C12 witness: discord returned False, webhook was called after it with the
\* same batch and returned True; email, not configured, was not called.
ChannelIsolationWitness ==
    /\ dispatched # <<>>
    /\ Len(notify_calls) = 2
    /\ notify_calls[1][1] = "discord"
    /\ notify_calls[2] = <<"webhook", all_new_records>>
    /\ notify_results = << <<"discord", FALSE>>, <<"webhook", TRUE>> >>

\* C13 as stated (SpecNotify).  Empty batch: notify([]) of every channel
\* returns True and sends nothing.
EmptyBatchEveryChannel ==
    \A i \in 1..Len(notify_calls) :
        notify_calls[i][2] = <<>> =>
            /\ notify_results[i][2] = TRUE
            /\ outbox = <<>>

\* C13 (SpecNotify), amended.  Empty batch: notify([]) sends nothing on any
\* channel; it returns True on a channel that is configured and False on one
\* that is not.
EmptyBatchConfiguredChannel ==
    \A i \in 1..Len(notify_calls) :
        notify_calls[i][2] = <<>> =>
            /\ outbox = <<>>
            /\ notify_results[i][2] = (notify_calls[i][1] \in config.configured)

\* C13 witness: notify([]) on a configured notifier has returned True.
EmptyBatchWitness ==
    /\ notify_calls # <<>>
    /\ notify_calls[1][2] = <<>>
    /\ notify_calls[1][1] \in config.configured
    /\ notify_results[1][2] = TRUE

\* C14 (SpecFetch).  Price filter: with the zip and the type rule inactive,
\* a listing is rejected exactly when its sale_price is present (0 included)
\* and below a set MIN_PRICE or above a set MAX_PRICE; a listing with no
\* sale_price passes.
PriceFilter ==
    (fetched # <<>> /\ config.ZIP_CODES = {} /\ "all" \in config.PROPERTY_TYPES) =>
        \A x \in FetchedItems :
            Returned(x) <=>
                ~ /\ x.sale_price # NoPrice
                  /\ \/ config.MIN_PRICE # 0 /\ x.sale_price < config.MIN_PRICE
                     \/ config.MAX_PRICE # 0 /\ x.sale_price > config.MAX_PRICE

\* C15 (SpecFetch).  Zip whitelist: with the price and the type rule
\* inactive, a listing is rejected exactly when ZIP_CODES is not empty, the
\* listing has a zip code and that zip code is not in ZIP_CODES; a listing
\* with an empty zip_code passes any whitelist.
ZipWhitelist ==
    (/\ fetched # <<>>
     /\ config.MIN_PRICE = 0
     /\ config.MAX_PRICE = 0
     /\ "all" \in config.PROPERTY_TYPES) =>
        \A x \in FetchedItems :
            Returned(x) <=>
                ~ /\ config.ZIP_CODES # {}
                  /\ x.zip_code # ""
                  /\ x.zip_code \notin config.ZIP_CODES

\* C15 witness: under a whitelist alone, fetch_all kept a listing with no zip
\* code and dropped one from a zip code outside the whitelist.
ZipWhitelistWitness ==
    /\ fetched # <<>>
    /\ config.ZIP_CODES # {}
    /\ config.MIN_PRICE = 0
    /\ config.MAX_PRICE = 0
    /\ "all" \in config.PROPERTY_TYPES
    /\ \E x, y \in FetchedItems :
          /\ x.zip_code = ""
          /\ Returned(x)
          /\ y.zip_code \notin (config.ZIP_CODES \cup {""})
          /\ ~Returned(y)

\* C16 (SpecFetch).  Type whitelist: with the price and the zip rule
\* inactive, a listing is rejected exactly when PROPERTY_TYPES is not empty,
\* does not hold "all", and holds neither the listing's record_type nor its
\* property_type.
TypeWhitelist ==
    (/\ fetched # <<>>
     /\ config.MIN_PRICE = 0
     /\ config.MAX_PRICE = 0
     /\ config.ZIP_CODES = {}) =>
        \A x \in FetchedItems :
            Returned(x) <=>
                ~ /\ config.PROPERTY_TYPES # {}
                  /\ "all" \notin config.PROPERTY_TYPES
                  /\ x.record_type \notin config.PROPERTY_TYPES
                  /\ x.property_type \notin config.PROPERTY_TYPES

\* C16 witness: under a type whitelist alone, fetch_all kept a listing whose
\* property_type is in the whitelist and whose record_type is not.
TypeWhitelistWitness ==
    /\ fetched # <<>>
    /\ config.MIN_PRICE = 0
    /\ config.MAX_PRICE = 0
    /\ config.ZIP_CODES = {}
    /\ "all" \notin config.PROPERTY_TYPES
    /\ \E x \in FetchedItems :
          /\ x.property_type \in config.PROPERTY_TYPES
          /\ x.record_type \notin config.PROPERTY_TYPES
          /\ Returned(x)

\* C17 (SpecFetch).  Filter composition: the list fetch_all returns is the
\* fetch_recent_sales results followed by the fetch_foreclosures results, in
\* their order, restricted to the listings that pass the price rule and the
\* zip rule and the type rule, each listing judged on its own.
FilterComposition ==
    fetched # <<>> =>
        results =
            SelectSeq(SubFetchItems(fetched[1]) \o SubFetchItems(fetched[2]),
                      LAMBDA x :
                        /\ ~ /\ x.sale_price # NoPrice
                             /\ \/ config.MIN_PRICE # 0 /\ x.sale_price < config.MIN_PRICE
                                \/ config.MAX_PRICE # 0 /\ x.sale_price > config.MAX_PRICE
                        /\ ~ /\ config.ZIP_CODES # {}
                             /\ x.zip_code # ""
                             /\ x.zip_code \notin config.ZIP_CODES
                        /\ ~ /\ config.PROPERTY_TYPES # {}
                             /\ "all" \notin config.PROPERTY_TYPES
                             /\ x.record_type \notin config.PROPERTY_TYPES
                             /\ x.property_type \notin config.PROPERTY_TYPES)

\* C18 (SpecStore).  mark_notified is idempotent: mark_notified(id) on an
\* existing row sets notified of that row and changes no other column and no
\* other row; called on an id it was called with before, it leaves the table
\* as it is.
MarkNotifiedIdempotent ==
    [][ marked' # marked =>
          LET id == marked'[Len(marked')]
          IN  /\ Len(table') = Len(table)
              /\ \A i \in 1..Len(table) :
                    table'[i] = IF table[i].id = id
                                THEN [table[i] EXCEPT !.notified = TRUE]
                                ELSE table[i]
              /\ (\E k \in 1..Len(marked) : marked[k] = id) => table' = table
      ]_vars

\* C18 witness: mark_notified was called twice with the id of the same row,
\* beside a row that is still unnotified.
MarkNotifiedIdempotentWitness ==
    /\ Len(marked) = 2
    /\ marked[1] = marked[2]
    /\ table[marked[1]].notified
    /\ \E i \in 1..Len(table) : ~table[i].notified

\* C19 (SpecStore).  Record lifecycle: no step deletes or re-creates a row
\* (every row keeps its place, id, natural key and first_seen, and the table
\* never shrinks); a row is created exactly when a natural key is upserted
\* for the first time, so that every upserted key has exactly one row.
RecordLifecycle ==
    [][ /\ Len(table') >= Len(table)
        /\ \A i \in 1..Len(table) :
              /\ table'[i].id = table[i].id
              /\ KeyOf(table'[i]) = KeyOf(table[i])
              /\ table'[i].first_seen = table[i].first_seen
        /\ Len(table') = Len(table) + Cardinality(upserted' \ upserted)
        /\ \A k \in upserted' : Cardinality(RowsWithKey(table', k)) = 1
      ]_vars

\* C19 witness: two keys are stored, one of them seen again and marked, and
\* get_stats has run since.
RecordLifecycleWitness ==
    /\ pc = "store"
    /\ Len(table) = 2
    /\ Cardinality(upserted) = 2
    /\ clock = 3
    /\ marked # <<>>
    /\ stats # <<>>
    /\ stats[1].total_records = 2

\* C20 (Spec).  Sequential, exclusive adapter scopes: a scraper is
\* constructed and its session acquired only while no session is held, for
\* the entry of the requested list the loop of main is at, the i-th entry
\* getting the i-th new scraper object; and main moves to the next entry,
\* one at a time, only with the session released.
SequentialScopes ==
    [][ /\ (instances' # instances /\ pc' # "init") =>
              /\ held = {}
              /\ idx \in 1..Len(scrapers_to_run)
              /\ instances' = idx
              /\ idx' = idx
        /\ (idx' # idx /\ pc' # "init") =>
              /\ idx' = idx + 1
              /\ held' = {}
              /\ instances = idx
      ]_vars

\* C20 witness: the second requested adapter holds its session, in a scraper
\* object of its own, after the first adapter's run.
SequentialScopesWitness ==
    /\ pc = "started"
    /\ idx = 2
    /\ instances = 2
    /\ held = ResourceNames
    /\ all_new_records # <<>>

\* C21 (Spec).  Duplicate inside one batch: an add_record for a natural key
\* that has a row (a listing earlier in the same batch included) returns
\* (id of that row, False), leaves the row's price as the first listing
\* wrote it, sets its last_seen to the time of this upsert and adds nothing
\* to new_records; an add_record for a key with no row returns is_new = True
\* and stores and reports the record with its own price; so the aggregated
\* batch of a run never holds a natural key twice.
DuplicateInBatch ==
    [][ AddRecordStep =>
          LET present == RowsWithKey(table, KeyOf(CurrentRecord))
              batch == all_new_records' \o new_records'
          IN  /\ present # {} =>
                    /\ new_records' = new_records
                    /\ \A i \in present :
                          /\ ret' = <<table[i].id, FALSE>>
                          /\ table'[i].sale_price = table[i].sale_price
                          /\ table'[i].last_seen = clock'
              /\ present = {} =>
                    /\ ret'[2] = TRUE
                    /\ table'[Len(table')].sale_price = CurrentRecord.sale_price
                    /\ Len(new_records') = Len(new_records) + 1
                    /\ new_records'[Len(new_records')].id = ret'[1]
                    /\ new_records'[Len(new_records')].sale_price = CurrentRecord.sale_price
              /\ \A i, j \in 1..Len(batch) :
                    i # j => KeyOf(batch[i]) # KeyOf(batch[j])
      ]_vars

\* C21 witness: the second listing of a batch had the key of the first: the
\* record is once in new_records, the last add_record returned its id with
\* is_new = False, and its row has the first price and a later last_seen.
DuplicateInBatchWitness ==
    /\ pc = "upsert"
    /\ Len(new_records) = 1
    /\ ret = <<new_records[1].id, FALSE>>
    /\ table[ret[1]].sale_price = new_records[1].sale_price
    /\ table[ret[1]].last_seen > table[ret[1]].first_seen

\* C22 (Spec).  Configuration error: main returns 1 exactly when sources
\* were requested and none is an adapter name, and it does so straight from
\* its entry: no scraper is constructed or started, the database is not
\* opened, the table is not written, nothing is dispatched or marked.
ConfigErrorBeforeWork ==
    [][ /\ (pc = "init" /\ pc' # "init") => (rc' = 1 <=> scrapers_to_run' = <<>>)
        /\ rc' = 1 =>
              /\ pc = "init"
              /\ pc' = "done"
              /\ ~db_open'
              /\ instances' = 0
              /\ held' = {}
              /\ table' = table
              /\ clock' = clock
              /\ notify_calls' = <<>>
              /\ dispatched' = <<>>
              /\ marked' = <<>>
              /\ stats' = <<>>
      ]_vars

\* C22 witness: a run with no recognized source has returned 1 beside a
\* table that earlier runs filled, with an unnotified row in it.
ConfigErrorBeforeWorkWitness ==
    /\ pc = "done"
    /\ rc = 1
    /\ scrapers_to_run = <<>>
    /\ ~db_open
    /\ \E i \in 1..Len(table) : ~table[i].notified

\* C23 (SpecNotify).  Chat-webhook batch bound: notify of the configured
\* Discord channel on a batch of n >= 1 records (main dispatches no empty
\* batch) makes at most one request, exactly one when it returns True, and
\* the request carries min(n, DiscordMaxEmbeds) entries: the first records
\* of the batch, in batch order.
DiscordBatchBound ==
    \A c \in 1..Len(notify_calls) :
        (/\ notify_calls[c][1] = "discord"
         /\ "discord" \in config.configured
         /\ notify_calls[c][2] # <<>>) =>
            LET records == notify_calls[c][2]
                n == Len(records)
                m == IF n < DiscordMaxEmbeds THEN n ELSE DiscordMaxEmbeds
            IN  /\ Len(outbox) <= 1
                /\ notify_results[c][2] => Len(outbox) = 1
                /\ \A k \in 1..Len(outbox) :
                      /\ outbox[k].channel = "discord"
                      /\ Len(outbox[k].items) = m
                      /\ Len(outbox[k].items) <= 10
                      /\ \A i \in 1..m : outbox[k].items[i] = records[i]

\* C23 witness: Discord was given more than ten records and its one request,
\* answered with success, carries ten entries.
DiscordBatchBoundWitness ==
    /\ notify_calls # <<>>
    /\ notify_calls[1][1] = "discord"
    /\ Len(notify_calls[1][2]) > 10
    /\ notify_results[1][2]
    /\ Len(outbox) = 1
    /\ Len(outbox[1].items) = 10

\* C24 (Spec).  Surrogate id stability: a row never changes its id or its
\* natural key, no two rows have the same id, and the id an add_record
\* returns is the id of the row that holds the natural key of its record; so
\* a repeat observation of a key gets the id of the first, and two keys never
\* get the same id.
SurrogateIdStability ==
    [][ /\ \A i \in 1..Len(table) :
              /\ i <= Len(table')
              /\ table'[i].id = table[i].id
              /\ KeyOf(table'[i]) = KeyOf(table[i])
        /\ \A i, j \in 1..Len(table') : table'[i].id = table'[j].id => i = j
        /\ AddRecordStep =>
              /\ ret'[1] # 0
              /\ \E i \in 1..Len(table') :
                    /\ table'[i].id = ret'[1]
                    /\ KeyOf(table'[i]) = KeyOf(CurrentRecord)
      ]_vars

\* C24 witness: with rows for two natural keys stored, a repeat observation
\* of the first key returned the id of its row.
SurrogateIdStabilityWitness ==
    /\ pc = "upsert"
    /\ Len(table) >= 2
    /\ ret = <<table[1].id, FALSE>>
    /\ KeyOf(table[1]) # KeyOf(table[2])
    /\ table[1].id # table[2].id
    /\ table[1].last_seen > table[2].first_seen

\* C25 (Spec).  Stranded unnotified records: a row that is unnotified when a
\* run starts (inserted by a dry run, or by a run that ended before its
\* mark-notified loop) is unnotified in every state of that run, and is in
\* no new_records list, in no aggregated batch and in no batch notify_all is
\* invoked with; main never reads the unnotified rows back.
StrandedUnnotified ==
    \A i \in 1..Len(notified_at_start) :
        ~notified_at_start[i] =>
            /\ ~table[i].notified
            /\ \A j \in 1..Len(new_records) : new_records[j].id # table[i].id
            /\ \A j \in 1..Len(all_new_records) : all_new_records[j].id # table[i].id
            /\ \A b \in 1..Len(dispatched) :
                  \A j \in 1..Len(dispatched[b]) : dispatched[b][j].id # table[i].id
            /\ \A j \in 1..Len(marked) : marked[j] # table[i].id

\* C25 witness: a non-dry run has seen an unnotified row of an earlier run
\* again, has dispatched and marked its own new record and has ended; the
\* older row is still unnotified.
StrandedUnnotifiedWitness ==
    /\ pc = "done"
    /\ ~dry_run
    /\ dispatched # <<>>
    /\ marked # <<>>
    /\ \E i \in 1..Len(notified_at_start) :
          /\ ~table[i].notified
          /\ table[i].last_seen > table[i].first_seen

\* C26 (Spec).  Marking without any attempt: in a non-dry run with a
\* non-empty aggregated batch and no notifier configured, notify_all is
\* invoked with the batch, calls no notify and returns an empty result, and
\* by the end of the run every record of the batch is marked notified.
MarkingWithoutAttempt ==
    (/\ ~dry_run
     /\ config.configured = {}
     /\ dispatched # <<>>) =>
        /\ pc \in {"mark", "done"}
        /\ dispatched = <<all_new_records>>
        /\ all_new_records # <<>>
        /\ notify_calls = <<>>
        /\ notify_results = <<>>
        /\ pc = "done" =>
              \A j \in 1..Len(all_new_records) :
                  table[all_new_records[j].id].notified

\* C26 witness: such a run has ended: no notify call was made and the new
\* record is marked.
MarkingWithoutAttemptWitness ==
    /\ pc = "done"
    /\ rc = 0
    /\ ~dry_run
    /\ config.configured = {}
    /\ all_new_records # <<>>
    /\ notify_calls = <<>>
    /\ marked = <<all_new_records[1].id>>
    /\ table[all_new_records[1].id].notified

\* C27: when to_property_record or add_record raises on a listing of an
\* adapter's batch, the except clause stores nothing and keeps what the
\* batch had collected (the rest of the batch is dropped, the table and
\* new_records are as they were, the session is still the open one); from
\* then until run_scraper is left nothing more is stored; and the return of
\* run_scraper releases the session, hands exactly the collected new records
\* to main's all_new_records, and moves main to the next adapter.
MidBatchUpsertFailure ==
    [][ /\ (~caught /\ caught') =>
              /\ results' = <<>>
              /\ table' = table
              /\ new_records' = new_records
              /\ all_new_records' = all_new_records
              /\ held' = held
              /\ pc' = "upsert"
        /\ caught => table' = table
        /\ (caught /\ pc' = "loop") =>
              /\ held' = {}
              /\ all_new_records' = all_new_records \o new_records
              /\ idx' = idx + 1
              /\ scrapers_to_run' = scrapers_to_run ]_vars

\* The second listing of a batch has raised after the first was stored as
\* new, and another adapter is still to run.
MidBatchUpsertFailureWitness ==
    /\ caught
    /\ new_records # <<>>
    /\ idx < Len(scrapers_to_run)

\* C28: with Discord the only configured channel and a batch of more than
\* DiscordMaxEmbeds new records, at most one Discord message is ever sent
\* (one notify call, no second batch), no record past the tenth is an entry
\* of any message, and once the run has ended outside dry-run every record of
\* the batch, those past the tenth included, is stored notified.
BeyondTenthMarkedNotSent ==
    (config.configured = {"discord"} /\ Len(all_new_records) > DiscordMaxEmbeds) =>
        /\ Len(notify_calls) <= 1
        /\ Len(outbox) <= 1
        /\ \A k \in 1..Len(outbox) :
              /\ outbox[k].channel = "discord"
              /\ \A i \in (DiscordMaxEmbeds + 1)..Len(all_new_records) :
                    \A j \in 1..Len(outbox[k].items) :
                        outbox[k].items[j].id # all_new_records[i].id
        /\ (pc = "done" /\ ~dry_run) =>
              \A i \in 1..Len(all_new_records) :
                  table[all_new_records[i].id].notified

\* A run with eleven new records and Discord alone has ended: one message of
\* ten entries went out, and the eleventh record is stored notified.
BeyondTenthMarkedNotSentWitness ==
    /\ pc = "done"
    /\ config.configured = {"discord"}
    /\ Len(all_new_records) > DiscordMaxEmbeds
    /\ Len(outbox) = 1
    /\ Len(outbox[1].items) = DiscordMaxEmbeds
    /\ table[all_new_records[DiscordMaxEmbeds + 1].id].notified

\* C29: over any sequence of add_record calls, each reading a clock that
\* does not go back, every stored row has first_seen <= last_seen in every
\* state; a row an add_record call inserts has first_seen = last_seen = the
\* time of that call; and no add_record call lowers the last_seen of a row.
TimestampInvariant ==
    /\ [](\A i \in 1..Len(table) : table[i].first_seen <= table[i].last_seen)
    /\ [][ /\ clock' >= clock
           /\ Len(table') >= Len(table)
           /\ \A i \in 1..Len(table) : table'[i].last_seen >= table[i].last_seen
           /\ \A i \in (Len(table) + 1)..Len(table') :
                 /\ table'[i].first_seen = table'[i].last_seen
                 /\ table'[i].first_seen = clock' ]_vars

\* A row has been inserted and, at a later time, seen again.
TimestampInvariantWitness ==
    \E i \in 1..Len(table) :
        /\ table[i].first_seen < table[i].last_seen
        /\ table[i].last_seen = clock

\* C30: the site tag of a stored row is the `name` of the scraper class, never
\* the registry name it was requested under; so registry entries backed by
\* one class share a tag (the Zillow entries, the Redfin entries), the table
\* holds one row for a (parcel_id, record_type, sale_date) whichever of them
\* fetched it, and the new records of a process never list such a listing
\* twice: only the first entry that runs reports it as new.
SiteTagIsClassName ==
    /\ \A n \in {"zillow_san_diego", "zillow_miami", "zillow_la"} : SCRAPERS[n] = "zillow"
    /\ \A n \in {"redfin_san_diego", "redfin_miami"} : SCRAPERS[n] = "redfin"
    /\ \A i \in 1..Len(table) :
          table[i].county \in {"san_diego", "miami_dade", "zillow", "redfin", "realtor"}
    /\ \A i, j \in 1..Len(table) :
          (/\ table[i].parcel_id = table[j].parcel_id
           /\ table[i].record_type = table[j].record_type
           /\ table[i].sale_date = table[j].sale_date) => i = j
    /\ LET reported == all_new_records \o new_records
       IN  \A i, j \in 1..Len(reported) :
              (/\ reported[i].parcel_id = reported[j].parcel_id
               /\ reported[i].record_type = reported[j].record_type
               /\ reported[i].sale_date = reported[j].sale_date) => i = j

\* The second of two registry entries of one class has just upserted a
\* listing the first had reported as new: it found the first entry's row.
SiteTagIsClassNameWitness ==
    /\ pc = "upsert"
    /\ idx = 2
    /\ scrapers_to_run[1] # scrapers_to_run[2]
    /\ SCRAPERS[scrapers_to_run[1]] = SCRAPERS[scrapers_to_run[2]]
    /\ ret[2] = FALSE
    /\ \E j \in 1..Len(all_new_records) : all_new_records[j].id = ret[1]
    /\ new_records = <<>>

====
